---- MODULE Spec2Model ----
(***************************************************************************)
(* A model of plugins/check_load.c: the threshold parser get_threshold,    *)
(* the option handling of process_arguments, validate_arguments, the       *)
(* evaluation walk of main and the process listing of                      *)
(* print_top_consuming_processes with its qsort comparator cmpstringp.     *)
(***************************************************************************)
EXTENDS Integers, Sequences, FiniteSets, TLC

(***************************************************************************)
(* Bounds of the model.                                                    *)
(***************************************************************************)
MaxLen == 5        \* longest threshold string of the get_threshold harness
MaxArgs == 3       \* most options/positionals getopt_long hands out in a run
MaxCpus == 2       \* largest processor count GET_NUMBER_OF_CPUS reports
MaxRows == 3       \* most data rows of a process listing
MaxPcpu == 1       \* largest %CPU value of a data row
MaxProcs == 3      \* largest -n value of the listing harness

(***************************************************************************)
(* C doubles.  A double is NaN or a rational n/d with d > 0; the           *)
(* comparisons are the IEEE ones: every ordered comparison with NaN is     *)
(* false.                                                                  *)
(***************************************************************************)
NaN == [k |-> "nan", n |-> 0, d |-> 1]

D(x) == [k |-> "num", n |-> x, d |-> 1]

IsNaN(a) == a.k = "nan"

DLt(a, b) == ~IsNaN(a) /\ ~IsNaN(b) /\ a.n * b.d < b.n * a.d

DGt(a, b) == DLt(b, a)

DDiv(a, m) == IF IsNaN(a) THEN NaN ELSE [k |-> "num", n |-> a.n, d |-> a.d * m]

Triple(a, b, c) == (0 :> a) @@ (1 :> b) @@ (2 :> c)

Zero3 == Triple(D(0), D(0), D(0))

(***************************************************************************)
(* C strings are sequences of characters; offsets are 0-based, so the      *)
(* character at offset o of s is s[o + 1] and offset Len(s) is the NUL.    *)
(***************************************************************************)
Digits == {"0", "1", "2"}

Alphabet == Digits \cup {",", "-", "n", "a"}

DigitVal(c) == CASE c = "0" -> 0 [] c = "1" -> 1 [] c = "2" -> 2

CharAt(s, o) == IF o < Len(s) THEN s[o + 1] ELSE "NUL"

RECURSIVE DigitsEnd(_, _)
DigitsEnd(s, o) == IF CharAt(s, o) \in Digits THEN DigitsEnd(s, o + 1) ELSE o

RECURSIVE DigitsVal(_, _, _)
DigitsVal(s, o, acc) ==
    IF CharAt(s, o) \in Digits
    THEN DigitsVal(s, o + 1, 10 * acc + DigitVal(CharAt(s, o)))
    ELSE acc

(* strtod(3) on the characters of Alphabet: an optional sign, then either a *)
(* decimal digit string or "nan".  With no conversion the value is 0 and    *)
(* the end pointer is the start pointer.                                    *)
strtod(s, o) ==
    LET neg == CharAt(s, o) = "-"
        b == IF neg THEN o + 1 ELSE o
    IN  IF CharAt(s, b) \in Digits
        THEN [val |-> D((IF neg THEN -1 ELSE 1) * DigitsVal(s, b, 0)),
              end |-> DigitsEnd(s, b)]
        ELSE IF CharAt(s, b) = "n" /\ CharAt(s, b + 1) = "a" /\ CharAt(s, b + 2) = "n"
        THEN [val |-> NaN, end |-> b + 3]
        ELSE [val |-> D(0), end |-> o]

(* atoi(3): the leading optionally signed digit string, 0 when there is none *)
atoi(s) ==
    LET neg == CharAt(s, 0) = "-"
        b == IF neg THEN 1 ELSE 0
    IN  (IF neg THEN -1 ELSE 1) * DigitsVal(s, b, 0)

(***************************************************************************)
(* get_threshold.  GT_Loop is the for loop of lines 83-90: it returns the  *)
(* array, the value of i at the exit of the loop, valid, and whether the   *)
(* loop was left by a failed conversion (p == str).                        *)
(***************************************************************************)
RECURSIVE GT_Loop(_, _, _, _, _)
GT_Loop(arg, th, i, str, valid) ==
    IF i >= 3
    THEN [th |-> th, i |-> i, valid |-> valid, failed |-> FALSE]
    ELSE LET r == strtod(arg, str)
             th1 == [th EXCEPT ![i] = r.val]
         IN  IF r.end = str
             THEN [th |-> th1, i |-> i, valid |-> valid, failed |-> TRUE]
             ELSE IF Len(arg) <= r.end + 1
             THEN [th |-> th1, i |-> i, valid |-> TRUE, failed |-> FALSE]
             ELSE GT_Loop(arg, th1, i + 1, r.end + 1, TRUE)

(* GT_Fill filling with the first value instead of the last one *)
GT_Fill_First(th, i) ==
    IF i # 2
    THEN [n \in 0..2 |-> IF n >= i THEN th[0] ELSE th[n]]
    ELSE th

(* the fill loop of lines 95-99: for(n = i; n < 3; n++) th[n] = th[i] *)
GT_Fill(th, i) ==
    IF i # 2
    THEN [n \in 0..2 |-> IF n >= i THEN th[i] ELSE th[n]]
    ELSE th

(* usage() prints and exits with STATE_UNKNOWN *)
get_threshold(arg, th) ==
    LET l == GT_Loop(arg, th, 0, 0, FALSE)
    IN  IF l.i = 0 /\ ~l.valid
        THEN [exit |-> TRUE, th |-> l.th]
        ELSE [exit |-> FALSE, th |-> GT_Fill(l.th, l.i)]

(***************************************************************************)
(* Exit states of the plugin API (common.h).                               *)
(***************************************************************************)
STATE_OK == 0
STATE_WARNING == 1
STATE_CRITICAL == 2
STATE_UNKNOWN == 3

(***************************************************************************)
(* State.  argv is held as the options getopt_long still has to hand out   *)
(* (argc counts them plus the program name, every option argument being    *)
(* attached to its option) and the non-options it has permuted to the end  *)
(* (rest = argv[optind .. argc-1] once it returns -1).  wGiven and cGiven  *)
(* record that the 'w' and 'c' cases ran.  The t_ and p_ variables belong  *)
(* to the harnesses of get_threshold and print_top_consuming_processes;    *)
(* fetch records how the retrieval of the load averages ended.             *)
(***************************************************************************)
VARIABLES pc, argc, seen, rest, wload, cload, take_into_account_cpus,
          n_procs_to_show, wGiven, cGiven, la, scaled_la,
          is_using_scaled_load_values, result, exitcode, stdout, stderr,
          fetch, t_pc, t_arg, t_prior, t_th, p_pc, p_impl, p_n, p_chld, p_out

progVars == <<pc, argc, seen, rest, wload, cload, take_into_account_cpus,
              n_procs_to_show, wGiven, cGiven, la, scaled_la,
              is_using_scaled_load_values, result, exitcode, stdout, stderr,
              fetch>>

tVars == <<t_pc, t_arg, t_prior, t_th>>

pVars == <<p_pc, p_impl, p_n, p_chld, p_out>>

vars == <<progVars, tVars, pVars>>

(***************************************************************************)
(* validate_arguments: TRUE when one of the three die() calls is reached.  *)
(***************************************************************************)
RECURSIVE VA_Loop(_, _, _)
VA_Loop(w, c, i) ==
    IF i >= 3 THEN FALSE
    ELSE IF DLt(c[i], D(0)) THEN TRUE
    ELSE IF DLt(w[i], D(0)) THEN TRUE
    ELSE IF DGt(w[i], c[i]) THEN TRUE
    ELSE VA_Loop(w, c, i + 1)

validate_arguments(w, c) == VA_Loop(w, c, 0)

(* the walk leaving the loop at the first WARNING as well *)
RECURSIVE EvalWalk_BreakOnWarning(_, _, _, _, _, _, _)
EvalWalk_BreakOnWarning(l, sl, scaled, w, c, i, res) ==
    IF i >= 3 THEN res
    ELSE LET x == IF scaled THEN sl[i] ELSE l[i]
         IN  IF DGt(x, c[i]) THEN STATE_CRITICAL
             ELSE IF DGt(x, w[i]) THEN STATE_WARNING
             ELSE EvalWalk_BreakOnWarning(l, sl, scaled, w, c, i + 1, res)

(***************************************************************************)
(* The evaluation walk of main, lines 190-204.                             *)
(***************************************************************************)
RECURSIVE EvalWalk(_, _, _, _, _, _, _)
EvalWalk(l, sl, scaled, w, c, i, res) ==
    IF i >= 3 THEN res
    ELSE IF scaled
    THEN IF DGt(sl[i], c[i]) THEN STATE_CRITICAL
         ELSE EvalWalk(l, sl, scaled, w, c, i + 1,
                       IF DGt(sl[i], w[i]) THEN STATE_WARNING ELSE res)
    ELSE IF DGt(l[i], c[i]) THEN STATE_CRITICAL
         ELSE EvalWalk(l, sl, scaled, w, c, i + 1,
                       IF DGt(l[i], w[i]) THEN STATE_WARNING ELSE res)

(***************************************************************************)
(* Process listing.  A line of the listing is the header or a data row;    *)
(* a data row carries the %CPU field sscanf extracts with PS_FORMAT.       *)
(***************************************************************************)
Header == [pid |-> 0, pcpu |-> 0]

Row(i, v) == [pid |-> i, pcpu |-> v]

(* cmpstringp: return procpcpu1 < procpcpu; *)
cmpstringp(p1, p2) == IF p1.pcpu < p2.pcpu THEN 1 ELSE 0

(* qsort(3) is the C library's.  Two conforming implementations are        *)
(* modelled, both insertion sorts: "gt" moves the key left while           *)
(* compar(previous, key) > 0, "lt" while compar(key, previous) < 0.  They  *)
(* agree on every comparator that obeys the contract of qsort.             *)
QsortImpls == {"gt", "lt"}

QsortMoves(impl, prev, key) ==
    IF impl = "gt" THEN cmpstringp(prev, key) > 0 ELSE cmpstringp(key, prev) < 0

RECURSIVE QsortInsert(_, _, _)
QsortInsert(impl, s, key) ==
    IF s = <<>> THEN <<key>>
    ELSE IF QsortMoves(impl, s[Len(s)], key)
    THEN Append(QsortInsert(impl, SubSeq(s, 1, Len(s) - 1), key), s[Len(s)])
    ELSE Append(s, key)

RECURSIVE QsortFrom(_, _, _, _)
QsortFrom(impl, base, k, acc) ==
    IF k > Len(base) THEN acc
    ELSE QsortFrom(impl, base, k + 1, QsortInsert(impl, acc, base[k]))

qsort(impl, base) == QsortFrom(impl, base, 1, <<>>)

Min(a, b) == IF a < b THEN a ELSE b

(* print_top_consuming_processes: run is the outcome of np_runcmd, n is    *)
(* n_procs_to_show; the result is the return value and the lines printed.  *)
(* impl is the qsort of the build, "none" a build without PS_USES_PROCPCPU *)
print_top_consuming_processes(impl, run, n) ==
    IF run.status # 0
    THEN [ret |-> STATE_UNKNOWN, lines |-> <<>>, err |-> "exited with non-zero status"]
    ELSE IF Len(run.line) < 2
    THEN [ret |-> STATE_UNKNOWN, lines |-> <<>>, err |-> "some error occurred getting procs list"]
    ELSE LET sorted == IF impl = "none" THEN run.line
                       ELSE <<run.line[1]>> \o qsort(impl, SubSeq(run.line, 2, Len(run.line)))
             lines_to_show == Min(Len(run.line), n + 1)
         IN  [ret |-> STATE_OK, lines |-> SubSeq(sorted, 1, lines_to_show), err |-> ""]

(***************************************************************************)
(* Inputs of a run of the plugin.                                          *)
(***************************************************************************)
ThArgs == { <<"1">>, <<"2">>, <<"0", ",", "2">>, <<"n", "a", "n">>,
            <<"-", "1">>, <<"a">>, <<"1", ",", "a">> }

PosArgs == { <<"1">>, <<"0", ",", "2">> }

NArgs == { <<"2">>, <<"-", "1">>, <<"a">> }

LoadValues == {D(-1), D(0), D(1), D(3)}

CpuCounts == -1..MaxCpus

Builds == QsortImpls \cup {"none"}

Listings(maxrows) ==
    {<<>>} \cup
    UNION { { <<Header>> \o [i \in 1..k |-> Row(i, f[i])] : f \in [1..k -> 0..MaxPcpu] }
            : k \in 0..maxrows }

PsRuns(maxrows) ==
    { [status |-> 1, line |-> <<>>] } \cup
    { [status |-> 0, line |-> l] : l \in Listings(maxrows) }

LoadLine(st) == [kind |-> "LOAD", status |-> st, row |-> Header]

(* any other text written to stdout: usage, help, version, error messages *)
Message(k) == [kind |-> k, status |-> STATE_UNKNOWN, row |-> Header]

ErrorLine == Message("error")

PsLine(r) == [kind |-> "ps", status |-> STATE_OK, row |-> r]

TIdle == t_pc = "idle" /\ t_arg = <<>> /\ t_prior = Zero3 /\ t_th = Zero3

PIdle == p_pc = "idle" /\ p_impl = "none" /\ p_n = 0 /\ p_chld = [status |-> 1, line |-> <<>>]
         /\ p_out = [ret |-> STATE_OK, lines |-> <<>>, err |-> ""]

ProgInit ==
    /\ pc = "start"
    /\ seen = 0
    /\ rest = <<>>
    /\ wload = Zero3
    /\ cload = Zero3
    /\ take_into_account_cpus = FALSE
    /\ n_procs_to_show = 0
    /\ wGiven = FALSE
    /\ cGiven = FALSE
    /\ la = Zero3
    /\ scaled_la = Zero3
    /\ is_using_scaled_load_values = FALSE
    /\ result = -1
    /\ exitcode = -1
    /\ stdout = <<>>
    /\ stderr = <<>>
    /\ fetch = "none"

Init ==
    /\ ProgInit
    /\ argc \in 1..(MaxArgs + 1)
    /\ TIdle
    /\ PIdle

(* exit(code), or return code from main *)
Exit(code) == pc' = "exit" /\ exitcode' = code

(***************************************************************************)
(* process_arguments                                                       *)
(***************************************************************************)
(* if (argc < 2) return ERROR;  main then calls usage4 *)
Start ==
    /\ pc = "start"
    /\ IF argc < 2
       THEN /\ Exit(STATE_UNKNOWN)
            /\ stdout' = Append(stdout, Message("usage"))
       ELSE /\ pc' = "getopt"
            /\ UNCHANGED <<exitcode, stdout>>
    /\ UNCHANGED <<argc, seen, rest, wload, cload, take_into_account_cpus,
                   n_procs_to_show, wGiven, cGiven, la, scaled_la,
                   is_using_scaled_load_values, result, stderr, fetch, tVars, pVars>>

MoreArgs == pc = "getopt" /\ seen < argc - 1

(* case 'w': get_threshold(optarg, wload); *)
OptW ==
    /\ MoreArgs
    /\ \E optarg \in ThArgs :
         LET r == get_threshold(optarg, wload)
         IN  /\ wload' = r.th
             /\ IF r.exit
                THEN Exit(STATE_UNKNOWN) /\ stdout' = Append(stdout, Message("usage"))
                ELSE UNCHANGED <<pc, exitcode, stdout>>
    /\ seen' = seen + 1
    /\ wGiven' = TRUE
    /\ UNCHANGED <<argc, rest, cload, take_into_account_cpus, n_procs_to_show,
                   cGiven, la, scaled_la, is_using_scaled_load_values, result,
                   stderr, fetch, tVars, pVars>>

(* case 'c': get_threshold(optarg, cload); *)
OptC ==
    /\ MoreArgs
    /\ \E optarg \in ThArgs :
         LET r == get_threshold(optarg, cload)
         IN  /\ cload' = r.th
             /\ IF r.exit
                THEN Exit(STATE_UNKNOWN) /\ stdout' = Append(stdout, Message("usage"))
                ELSE UNCHANGED <<pc, exitcode, stdout>>
    /\ seen' = seen + 1
    /\ cGiven' = TRUE
    /\ UNCHANGED <<argc, rest, wload, take_into_account_cpus, n_procs_to_show,
                   wGiven, la, scaled_la, is_using_scaled_load_values, result,
                   stderr, fetch, tVars, pVars>>

(* case 'r': take_into_account_cpus = true; *)
OptR ==
    /\ MoreArgs
    /\ take_into_account_cpus' = TRUE
    /\ seen' = seen + 1
    /\ UNCHANGED <<pc, argc, rest, wload, cload, n_procs_to_show, wGiven, cGiven,
                   la, scaled_la, is_using_scaled_load_values, result, exitcode,
                   stdout, stderr, fetch, tVars, pVars>>

(* case 'n': n_procs_to_show = atoi(optarg); *)
OptN ==
    /\ MoreArgs
    /\ \E optarg \in NArgs : n_procs_to_show' = atoi(optarg)
    /\ seen' = seen + 1
    /\ UNCHANGED <<pc, argc, rest, wload, cload, take_into_account_cpus, wGiven,
                   cGiven, la, scaled_la, is_using_scaled_load_values, result,
                   exitcode, stdout, stderr, fetch, tVars, pVars>>

(* case 'V': print_revision (progname, NP_VERSION); exit (STATE_UNKNOWN); *)
OptV ==
    /\ MoreArgs
    /\ Exit(STATE_UNKNOWN)
    /\ stdout' = Append(stdout, Message("version"))
    /\ seen' = seen + 1
    /\ UNCHANGED <<argc, rest, wload, cload, take_into_account_cpus,
                   n_procs_to_show, wGiven, cGiven, la, scaled_la,
                   is_using_scaled_load_values, result, stderr, fetch, tVars, pVars>>

(* case 'h': print_help (); exit (STATE_UNKNOWN); *)
OptH ==
    /\ MoreArgs
    /\ Exit(STATE_UNKNOWN)
    /\ stdout' = Append(stdout, Message("help"))
    /\ seen' = seen + 1
    /\ UNCHANGED <<argc, rest, wload, cload, take_into_account_cpus,
                   n_procs_to_show, wGiven, cGiven, la, scaled_la,
                   is_using_scaled_load_values, result, stderr, fetch, tVars, pVars>>

(* case '?': usage5 (), which exits with STATE_UNKNOWN *)
OptUnknown ==
    /\ MoreArgs
    /\ Exit(STATE_UNKNOWN)
    /\ stdout' = Append(stdout, Message("usage"))
    /\ seen' = seen + 1
    /\ UNCHANGED <<argc, rest, wload, cload, take_into_account_cpus,
                   n_procs_to_show, wGiven, cGiven, la, scaled_la,
                   is_using_scaled_load_values, result, stderr, fetch, tVars, pVars>>

(* getopt_long passes over a non-option and permutes it behind the options *)
NonOption ==
    /\ MoreArgs
    /\ \E a \in PosArgs : rest' = Append(rest, a)
    /\ seen' = seen + 1
    /\ UNCHANGED <<pc, argc, wload, cload, take_into_account_cpus,
                   n_procs_to_show, wGiven, cGiven, la, scaled_la,
                   is_using_scaled_load_values, result, exitcode, stdout,
                   stderr, fetch, tVars, pVars>>

(* lines 274-286: the thresholds taken from the arguments left at optind; *)
(* c is optind and argv[k] for k >= optind is r[k - c + 1]                *)
PositionalThresholds(ac, r, w, cl) ==
    LET c == ac - Len(r)
    IN  IF c = ac
        THEN [exit |-> FALSE, wload |-> w, cload |-> cl]
        ELSE IF c - ac = 2
        THEN LET t1 == get_threshold(r[1], w)
                 t2 == get_threshold(r[2], cl)
             IN  IF t1.exit THEN [exit |-> TRUE, wload |-> t1.th, cload |-> cl]
                 ELSE [exit |-> t2.exit, wload |-> t1.th, cload |-> t2.th]
        ELSE IF c - ac = 1
        THEN LET t == get_threshold(r[1], cl)
             IN  [exit |-> t.exit, wload |-> w, cload |-> t.th]
        ELSE [exit |-> FALSE, wload |-> w, cload |-> cl]

(* getopt_long returns -1: the rest of process_arguments, which ends in   *)
(* validate_arguments; die() exits with STATE_UNKNOWN                      *)
GetoptDone ==
    /\ pc = "getopt"
    /\ seen = argc - 1
    /\ LET t == PositionalThresholds(argc, rest, wload, cload)
       IN  /\ wload' = t.wload
           /\ cload' = t.cload
           /\ IF t.exit \/ validate_arguments(t.wload, t.cload)
              THEN Exit(STATE_UNKNOWN) /\ stdout' = Append(stdout, ErrorLine)
              ELSE pc' = "fetch" /\ UNCHANGED <<exitcode, stdout>>
    /\ UNCHANGED <<argc, seen, rest, take_into_account_cpus, n_procs_to_show,
                   wGiven, cGiven, la, scaled_la, is_using_scaled_load_values,
                   result, stderr, fetch, tVars, pVars>>

(***************************************************************************)
(* main                                                                    *)
(***************************************************************************)
(* the check of line 159 looking at the 1-minute value alone *)
AnyNegative_FirstOnly(l) == DLt(l[0], D(0))

AnyNegative(l) == DLt(l[0], D(0)) \/ DLt(l[1], D(0)) \/ DLt(l[2], D(0))

(* lines 126-166: getloadavg, or uptime on a build without it (which      *)
(* prints a message when it fails), then the check for negative values    *)
Fetch ==
    /\ pc = "fetch"
    /\ \/ /\ fetch' = "failed"
          /\ Exit(STATE_UNKNOWN)
          /\ \E printed \in BOOLEAN :
               stdout' = IF printed THEN Append(stdout, ErrorLine) ELSE stdout
          /\ UNCHANGED la
       \/ \E l \in [0..2 -> LoadValues] :
            /\ fetch' = "ok"
            /\ la' = l
            /\ IF AnyNegative(l)
               THEN Exit(STATE_UNKNOWN) /\ stdout' = Append(stdout, ErrorLine)
               ELSE pc' = "evaluate" /\ UNCHANGED <<exitcode, stdout>>
    /\ UNCHANGED <<argc, seen, rest, wload, cload, take_into_account_cpus,
                   n_procs_to_show, wGiven, cGiven, scaled_la,
                   is_using_scaled_load_values, result, stderr, tVars, pVars>>

(* lines 169-204: scaling by the number of CPUs and the evaluation walk *)
Evaluate ==
    /\ pc = "evaluate"
    /\ \E numcpus \in (IF take_into_account_cpus THEN CpuCounts ELSE {0}) :
         LET scaled == take_into_account_cpus /\ numcpus > 0
             sl == IF scaled THEN [i \in 0..2 |-> DDiv(la[i], numcpus)] ELSE Zero3
         IN  /\ is_using_scaled_load_values' = scaled
             /\ scaled_la' = sl
             /\ result' = EvalWalk(la, sl, scaled, wload, cload, 0, STATE_OK)
    /\ pc' = "print"
    /\ UNCHANGED <<argc, seen, rest, wload, cload, take_into_account_cpus,
                   n_procs_to_show, wGiven, cGiven, la, exitcode, stdout,
                   stderr, fetch, tVars, pVars>>

(* lines 206-216: the "LOAD <STATUS> - ...|<perfdata>" line *)
PrintReport ==
    /\ pc = "print"
    /\ stdout' = Append(stdout, LoadLine(result))
    /\ pc' = "listing"
    /\ UNCHANGED <<argc, seen, rest, wload, cload, take_into_account_cpus,
                   n_procs_to_show, wGiven, cGiven, la, scaled_la,
                   is_using_scaled_load_values, result, exitcode, stderr,
                   fetch, tVars, pVars>>

ShowsProcs(n) == n > 0

(* main returning the value of print_top_consuming_processes *)
TopProcesses_ReturnsListingStatus ==
    /\ pc = "listing"
    /\ ShowsProcs(n_procs_to_show)
    /\ \E impl \in Builds, run \in PsRuns(MaxRows) :
         LET o == print_top_consuming_processes(impl, run, n_procs_to_show)
         IN  /\ stdout' = stdout \o [i \in 1..Len(o.lines) |-> PsLine(o.lines[i])]
             /\ stderr' = IF o.err = "" THEN stderr ELSE Append(stderr, o.err)
             /\ Exit(o.ret)
    /\ UNCHANGED <<argc, seen, rest, wload, cload, take_into_account_cpus,
                   n_procs_to_show, wGiven, cGiven, la, scaled_la,
                   is_using_scaled_load_values, result, fetch, tVars, pVars>>

(* lines 217-220 with n_procs_to_show > 0 *)
TopProcesses ==
    /\ pc = "listing"
    /\ ShowsProcs(n_procs_to_show)
    /\ \E impl \in Builds, run \in PsRuns(MaxRows) :
         LET o == print_top_consuming_processes(impl, run, n_procs_to_show)
         IN  /\ stdout' = stdout \o [i \in 1..Len(o.lines) |-> PsLine(o.lines[i])]
             /\ stderr' = IF o.err = "" THEN stderr ELSE Append(stderr, o.err)
    /\ Exit(result)
    /\ UNCHANGED <<argc, seen, rest, wload, cload, take_into_account_cpus,
                   n_procs_to_show, wGiven, cGiven, la, scaled_la,
                   is_using_scaled_load_values, result, fetch, tVars, pVars>>

(* line 220 with n_procs_to_show <= 0 *)
Return ==
    /\ pc = "listing"
    /\ ~ShowsProcs(n_procs_to_show)
    /\ Exit(result)
    /\ UNCHANGED <<argc, seen, rest, wload, cload, take_into_account_cpus,
                   n_procs_to_show, wGiven, cGiven, la, scaled_la,
                   is_using_scaled_load_values, result, stdout, stderr,
                   fetch, tVars, pVars>>

Next ==
    \/ Start
    \/ OptW
    \/ OptC
    \/ OptR
    \/ OptN
    \/ OptV
    \/ OptH
    \/ OptUnknown
    \/ NonOption
    \/ GetoptDone
    \/ Fetch
    \/ Evaluate
    \/ PrintReport
    \/ TopProcesses
    \/ Return

Spec == Init /\ [][Next]_vars

(***************************************************************************)
(* Harness of get_threshold: one call on a string of at most MaxLen        *)
(* characters, into an array holding the defaults or an earlier triplet.   *)
(***************************************************************************)
Strings(n) == UNION { [1..k -> Alphabet] : k \in 0..n }

Priors == { Zero3, Triple(D(5), D(6), D(7)) }

ProgIdle == ProgInit /\ argc = 1

InitThreshold ==
    /\ ProgIdle
    /\ PIdle
    /\ t_pc = "call"
    /\ t_arg \in Strings(MaxLen)
    /\ t_prior \in Priors
    /\ t_th = t_prior

CallGetThreshold ==
    /\ t_pc = "call"
    /\ LET r == get_threshold(t_arg, t_th)
       IN  /\ t_th' = r.th
           /\ t_pc' = IF r.exit THEN "usage" ELSE "returned"
    /\ UNCHANGED <<t_arg, t_prior, progVars, pVars>>

NextThreshold == CallGetThreshold

SpecThreshold == InitThreshold /\ [][NextThreshold]_vars

(***************************************************************************)
(* Harness of print_top_consuming_processes: one call with a positive      *)
(* n_procs_to_show on an outcome of the listing command.                   *)
(***************************************************************************)
InitTop ==
    /\ ProgIdle
    /\ TIdle
    /\ p_pc = "call"
    /\ p_impl \in Builds
    /\ p_n \in 1..MaxProcs
    /\ p_chld \in PsRuns(MaxRows)
    /\ p_out = [ret |-> STATE_OK, lines |-> <<>>, err |-> ""]

CallTop ==
    /\ p_pc = "call"
    /\ p_out' = print_top_consuming_processes(p_impl, p_chld, p_n)
    /\ p_pc' = "returned"
    /\ UNCHANGED <<p_impl, p_n, p_chld, progVars, tVars>>

NextTop == CallTop

SpecTop == InitTop /\ [][NextTop]_vars

(***************************************************************************)
(* Properties of get_threshold.  The fields of an argument are its         *)
(* comma-separated parts; a field is a number when strtod converts all of  *)
(* it, and fails to convert when strtod converts nothing of it.            *)
(***************************************************************************)
RECURSIVE CommaAt(_, _)
CommaAt(s, o) == IF o >= Len(s) \/ s[o + 1] = "," THEN o ELSE CommaAt(s, o + 1)

RECURSIVE Fields(_)
Fields(s) ==
    LET o == CommaAt(s, 0)
    IN  IF o >= Len(s) THEN <<s>>
        ELSE <<SubSeq(s, 1, o)>> \o Fields(SubSeq(s, o + 2, Len(s)))

IsNumber(f) == Len(f) > 0 /\ strtod(f, 0).end = Len(f)

FailsToConvert(f) == strtod(f, 0).end = 0

Val(f) == strtod(f, 0).val

WellFormed(s) ==
    /\ Len(Fields(s)) \in 1..3
    /\ \A j \in 1..Len(Fields(s)) : IsNumber(Fields(s)[j])

(* k numbers, then a field that fails to convert *)
FailsAfter(s, k) ==
    /\ Len(Fields(s)) > k
    /\ \A j \in 1..k : IsNumber(Fields(s)[j])
    /\ FailsToConvert(Fields(s)[k + 1])

(* C1: when a later field fails to convert after k >= 1 fields were        *)
(* parsed, get_threshold returns the k parsed values and fills every index *)
(* from k up to 2 with the last parsed value; the code stores the 0 of the *)
(* failed conversion instead.                                              *)
C1_FillsLastParsedAfterFailure ==
    \A k \in 1..2 :
        (t_pc # "call" /\ FailsAfter(t_arg, k)) =>
            /\ t_pc = "returned"
            /\ \A j \in 0..(k - 1) : t_th[j] = Val(Fields(t_arg)[j + 1])
            /\ \A j \in k..2 : t_th[j] = Val(Fields(t_arg)[k])

(* C2: for every well-formed argument get_threshold returns {x,x,x} for    *)
(* "x", {x,y,y} for "x,y" and {x,y,z} for "x,y,z", whatever the array held *)
(* before the call.                                                        *)
C2_WellFormedTriplet ==
    (t_pc # "call" /\ WellFormed(t_arg)) =>
        LET f == Fields(t_arg)
        IN  /\ t_pc = "returned"
            /\ t_th = CASE Len(f) = 1 -> Triple(Val(f[1]), Val(f[1]), Val(f[1]))
                        [] Len(f) = 2 -> Triple(Val(f[1]), Val(f[2]), Val(f[2]))
                        [] Len(f) = 3 -> Triple(Val(f[1]), Val(f[2]), Val(f[3]))

C2_Witness ==
    /\ t_pc = "returned"
    /\ t_arg = <<"1", ",", "2">>
    /\ t_prior = Triple(D(5), D(6), D(7))
    /\ t_th = Triple(D(1), D(2), D(2))

(***************************************************************************)
(* Properties of a run of the plugin.                                      *)
(***************************************************************************)
PastValidation == pc \in {"fetch", "evaluate", "print", "listing"}

HasLoadLine == \E j \in 1..Len(stdout) : stdout[j].kind = "LOAD"

HasPsLine == \E j \in 1..Len(stdout) : stdout[j].kind = "ps"

(* C3: with neither -w nor -c given, two remaining positionals set the     *)
(* warning then the critical triplet and one remaining positional sets the *)
(* critical triplet, each through get_threshold; the code tests            *)
(* c - argc instead of argc - c and never reads them.                      *)
C3_PositionalThresholds ==
    (PastValidation /\ ~wGiven /\ ~cGiven) =>
        /\ Len(rest) = 2 =>
             /\ wload = get_threshold(rest[1], Zero3).th
             /\ cload = get_threshold(rest[2], Zero3).th
        /\ Len(rest) = 1 =>
             cload = get_threshold(rest[1], Zero3).th

(* a triplet is supplied by its option or, as C3 has it, by a positional *)
WarningSupplied == wGiven \/ Len(rest) = 2

CriticalSupplied == cGiven \/ Len(rest) \in 1..2

(* C4: a run in which the warning triplet, the critical triplet or both    *)
(* were never supplied exits with UNKNOWN before any load retrieval; the   *)
(* defaults of 0.0 pass the "< 0" tests of validate_arguments.             *)
C4_UnspecifiedIsFatal ==
    (pc # "start" /\ pc # "getopt" /\ (~WarningSupplied \/ ~CriticalSupplied)) =>
        /\ pc = "exit"
        /\ exitcode = STATE_UNKNOWN
        /\ fetch = "none"

(* a <= b on doubles *)
DLe(a, b) == ~IsNaN(a) /\ ~IsNaN(b) /\ a.n * b.d <= b.n * a.d

(* C5: whenever load is fetched or evaluated, 0 <= warn[i] <= crit[i]      *)
(* holds for all three windows; a NaN threshold passes every comparison of *)
(* validate_arguments.                                                     *)
C5_ThresholdsOrderedPastValidation ==
    PastValidation =>
        \A i \in 0..2 : DLe(D(0), wload[i]) /\ DLe(wload[i], cload[i])

(* the per-window status and the worst of the three *)
Comparison == IF is_using_scaled_load_values THEN scaled_la ELSE la

WindowStatus(i) ==
    IF DGt(Comparison[i], cload[i]) THEN STATE_CRITICAL
    ELSE IF DGt(Comparison[i], wload[i]) THEN STATE_WARNING
    ELSE STATE_OK

Worst ==
    IF \E i \in 0..2 : WindowStatus(i) = STATE_CRITICAL THEN STATE_CRITICAL
    ELSE IF \E i \in 0..2 : WindowStatus(i) = STATE_WARNING THEN STATE_WARNING
    ELSE STATE_OK

Evaluated == pc \in {"print", "listing"} \/ (pc = "exit" /\ HasLoadLine)

(* C6: once load retrieval succeeded, the status computed by the           *)
(* evaluation walk is the worst per-window status of the comparison sample *)
(* (the scaled values in scaled mode, the raw ones otherwise), and is      *)
(* never UNKNOWN.                                                          *)
C6_WorstStatus ==
    Evaluated => result = Worst /\ result # STATE_UNKNOWN

(* scaled mode, a WARNING first window, a later CRITICAL one *)
C6_Witness ==
    /\ pc = "print"
    /\ is_using_scaled_load_values
    /\ WindowStatus(0) = STATE_WARNING
    /\ WindowStatus(2) = STATE_CRITICAL
    /\ result = STATE_CRITICAL

(* C7: if load retrieval fails or a raw load value is negative, the run    *)
(* exits with UNKNOWN without evaluating, without the LOAD line and        *)
(* without the process listing.                                            *)
C7_FetchFailureIsUnknown ==
    (fetch = "failed" \/ (fetch = "ok" /\ \E i \in 0..2 : DLt(la[i], D(0)))) =>
        /\ pc = "exit"
        /\ exitcode = STATE_UNKNOWN
        /\ result = -1
        /\ ~HasLoadLine
        /\ ~HasPsLine
        /\ stderr = <<>>

C7_Witness ==
    /\ fetch = "ok"
    /\ ~DLt(la[0], D(0))
    /\ DLt(la[2], D(0))
    /\ n_procs_to_show > 0
    /\ pc = "exit"
    /\ exitcode = STATE_UNKNOWN

(* C8: the process listing runs only with a positive n_procs_to_show and   *)
(* only after the LOAD line, and the exit code is the status of the        *)
(* evaluation walk whatever the outcome of the listing.                    *)
C8_ListingLeavesExitCode ==
    /\ (HasPsLine \/ stderr # <<>>) =>
         /\ n_procs_to_show > 0
         /\ stdout[1].kind = "LOAD"
         /\ \A j \in 2..Len(stdout) : stdout[j].kind = "ps"
    /\ (pc = "exit" /\ HasLoadLine) =>
         /\ exitcode = result
         /\ exitcode = stdout[1].status
         /\ exitcode = Worst

(* the listing command failed after a CRITICAL evaluation *)
C8_Witness ==
    /\ pc = "exit"
    /\ HasLoadLine
    /\ stderr # <<>>
    /\ exitcode = STATE_CRITICAL

(***************************************************************************)
(* Properties of print_top_consuming_processes and cmpstringp.             *)
(***************************************************************************)
DataRows(l) == { l[j] : j \in 2..Len(l) }

Sign(x) == IF x < 0 THEN -1 ELSE IF x > 0 THEN 1 ELSE 0

Listed == p_pc = "returned" /\ p_chld.status = 0 /\ Len(p_chld.line) >= 2

(* C9: on a build that extracts the CPU usage, a listing of at least two   *)
(* lines is printed as min(listing length, topN + 1) lines: the header,    *)
(* then the data rows with the highest CPU usage, highest first.  With     *)
(* cmpstringp the order depends on the qsort of the C library.             *)
C9_TopRowsDescending ==
    (Listed /\ p_impl # "none") =>
        LET o == p_out.lines
        IN  /\ Len(o) = Min(Len(p_chld.line), p_n + 1)
            /\ o[1] = p_chld.line[1]
            /\ \A j \in 2..Len(o) : o[j] \in DataRows(p_chld.line)
            /\ \A j, k \in 2..Len(o) : j < k => o[j] # o[k] /\ o[j].pcpu >= o[k].pcpu
            /\ \A r \in DataRows(p_chld.line) \ DataRows(o) :
                 \A j \in 2..Len(o) : o[j].pcpu >= r.pcpu

(* C10: cmpstringp is a three-way comparison for descending CPU usage:     *)
(* negative when the first row uses more CPU than the second, zero when    *)
(* they use the same and positive when it uses less, so that               *)
(* sign(cmp(a,b)) = -sign(cmp(b,a)).  The code returns                     *)
(* procpcpu1 < procpcpu, which is never negative.                          *)
C10_ThreeWayComparator ==
    (Listed /\ p_impl # "none") =>
        \A a, b \in DataRows(p_chld.line) :
            /\ a.pcpu > b.pcpu => cmpstringp(a, b) < 0
            /\ a.pcpu = b.pcpu => cmpstringp(a, b) = 0
            /\ a.pcpu < b.pcpu => cmpstringp(a, b) > 0
            /\ Sign(cmpstringp(a, b)) = -Sign(cmpstringp(b, a))

====
